---- MODULE Spec2Model ----
(***************************************************************************)
(* Model of src/verify.rs of snpguest: the `verify certs` subcommand       *)
(* (certificate_chain::validate_cc), the `verify attestation` subcommand   *)
(* (attestation::verify_attestation) with its TCB and signature sub-checks *)
(* (verify_attestation_tcb, verify_attestation_signature) and the helpers  *)
(* find_cert_in_dir, parse_common_name and check_cert_bytes.               *)
(*                                                                         *)
(* Strings the code inspects or transforms (file names, certificate type   *)
(* names, subject common names) are sequences of one-character strings so  *)
(* that format!, to_uppercase, to_lowercase and contains are computed.     *)
(* Byte strings are sequences of numbers in 0..255.  Option values are     *)
(* None == <<>> and Some(x) == <<x>>.  Console output (println!, guarded   *)
(* by `quiet`) does not influence any result and is not modelled.          *)
(***************************************************************************)
EXTENDS Integers, Sequences, FiniteSets, TLC

VARIABLES
    pc,           \* position of the running function
    result,       \* Result<()> returned by the running function
    dir,          \* names of the files that exist in args.certs_dir
    paths,        \* (ark_path, ask_path, vek_path, vek_type, sign_type)
    chain,        \* outcome of each (signer, signee).verify() of the loaded Chain
    evaluated,    \* the verify() calls made so far, in order
    cn,           \* subject common name of the VEK certificate (Option)
    extensions,   \* SnpOid -> Option of the raw extension value
    att_report,   \* AttestationReport fields read by the TCB check
    proc_model,   \* ProcType
    common_name,  \* Result<CertType> of parse_common_name (Option until run)
    compared,     \* check_cert_bytes calls made so far: <<field, outcome>>
    ext,          \* argument of a stand-alone check_cert_bytes call
    val,          \* argument of a stand-alone check_cert_bytes call
    ccb,          \* bool returned by that call, or the panic
    args,         \* attestation::Args: report file, processor model, flags
    ran,          \* the sub-checks verify_attestation has called, in order
    returned,     \* the Results those sub-checks returned, in order
    vek_key,      \* public key of the VEK certificate
    signature,    \* att_report.signature
    report_bytes, \* the bytes att_report.write_bytes produces
    digest        \* base_message_digest (Option until computed)

vars == <<pc, result, dir, paths, chain, evaluated, cn, extensions, att_report,
          proc_model, common_name, compared, ext, val, ccb, args, ran,
          returned, vek_key, signature, report_bytes, digest>>

chainVars == <<dir, paths, chain, evaluated>>
tcbVars == <<cn, extensions, att_report, proc_model, common_name, compared>>
codecVars == <<ext, val, ccb>>
sigVars == <<vek_key, signature, report_bytes, digest>>
attVars == <<args, ran, returned>>

-----------------------------------------------------------------------------
(* Option and Result values *)

None == <<>>
Some(x) == <<x>>
IsSome(o) == o # <<>>
Unwrap(o) == o[1]

Pending == [ok |-> FALSE, fmt |-> "<pending>", args |-> <<>>]
Ok == [ok |-> TRUE, fmt |-> "", args |-> <<>>]
Err(f, a) == [ok |-> FALSE, fmt |-> f, args |-> a]
\* the process aborted by panic!: no Result is returned
Panic(m) == [ok |-> FALSE, fmt |-> "<panic>", args |-> <<m>>]

-----------------------------------------------------------------------------
(* Strings as sequences of characters *)

LowerChars == <<"a","b","c","d","e","f","g","h","i","j","k","l","m",
                "n","o","p","q","r","s","t","u","v","w","x","y","z">>
UpperChars == <<"A","B","C","D","E","F","G","H","I","J","K","L","M",
                "N","O","P","Q","R","S","T","U","V","W","X","Y","Z">>

ToLowerChar(c) ==
    IF \E i \in 1..26 : UpperChars[i] = c
    THEN LowerChars[CHOOSE i \in 1..26 : UpperChars[i] = c]
    ELSE c

ToUpperChar(c) ==
    IF \E i \in 1..26 : LowerChars[i] = c
    THEN UpperChars[CHOOSE i \in 1..26 : LowerChars[i] = c]
    ELSE c

to_lowercase(s) == [i \in 1..Len(s) |-> ToLowerChar(s[i])]
to_uppercase(s) == [i \in 1..Len(s) |-> ToUpperChar(s[i])]

\* str::contains: pat occurs in s as a contiguous substring
contains(s, pat) ==
    \E k \in 0..(Len(s) - Len(pat)) :
        \A j \in 1..Len(pat) : s[k + j] = pat[j]

s_ark == <<"a","r","k">>
s_ask == <<"a","s","k">>
s_asvk == <<"a","s","v","k">>
s_vcek == <<"v","c","e","k">>
s_vlek == <<"v","l","e","k">>
s_sev == <<"s","e","v">>
s_crl == <<"c","r","l">>
s_pem == <<".","p","e","m">>
s_der == <<".","d","e","r">>

-----------------------------------------------------------------------------
(* find_cert_in_dir *)

CertNames == {s_ark, s_ask, s_asvk, s_vcek, s_vlek}
FileNames == {c \o e : c \in CertNames, e \in {s_pem, s_der}}

find_cert_in_dir(d, cert) ==
    IF (cert \o s_pem) \in d THEN [ok |-> TRUE, path |-> cert \o s_pem]
    ELSE IF (cert \o s_der) \in d THEN [ok |-> TRUE, path |-> cert \o s_der]
    ELSE [ok |-> FALSE, path |-> <<>>]

NotFound(cert) == Err("{cert} certificate not found in directory", <<cert>>)

-----------------------------------------------------------------------------
(* certificate_chain::validate_cc *)

NoPaths == [ark_path |-> <<>>, ask_path |-> <<>>, vek_path |-> <<>>,
            vek_type |-> <<>>, sign_type |-> <<>>]

\* variant of resolve_chain_paths that tries the VCEK leaf first
resolve_chain_paths_VcekFirst(d) ==
    LET ark == find_cert_in_dir(d, s_ark)
        vlek == find_cert_in_dir(d, s_vlek)
        vcek == find_cert_in_dir(d, s_vcek)
        asvk == find_cert_in_dir(d, s_asvk)
        ask == find_cert_in_dir(d, s_ask)
    IN  IF ~ark.ok THEN [res |-> NotFound(s_ark), paths |-> NoPaths]
        ELSE IF vcek.ok
        THEN IF ~ask.ok THEN [res |-> NotFound(s_ask), paths |-> NoPaths]
             ELSE [res |-> Ok,
                   paths |-> [ark_path |-> ark.path, ask_path |-> ask.path,
                              vek_path |-> vcek.path, vek_type |-> s_vcek,
                              sign_type |-> s_ask]]
        ELSE IF ~vlek.ok THEN [res |-> NotFound(s_vlek), paths |-> NoPaths]
        ELSE IF ~asvk.ok THEN [res |-> NotFound(s_asvk), paths |-> NoPaths]
        ELSE [res |-> Ok,
              paths |-> [ark_path |-> ark.path, ask_path |-> asvk.path,
                         vek_path |-> vlek.path, vek_type |-> s_vlek,
                         sign_type |-> s_asvk]]

\* lines 59-70: the paths of the three certificates and the variant in use
resolve_chain_paths(d) ==
    LET ark == find_cert_in_dir(d, s_ark)
        vlek == find_cert_in_dir(d, s_vlek)
        vcek == find_cert_in_dir(d, s_vcek)
        asvk == find_cert_in_dir(d, s_asvk)
        ask == find_cert_in_dir(d, s_ask)
    IN  IF ~ark.ok THEN [res |-> NotFound(s_ark), paths |-> NoPaths]
        ELSE IF vlek.ok
        THEN IF ~asvk.ok THEN [res |-> NotFound(s_asvk), paths |-> NoPaths]
             ELSE [res |-> Ok,
                   paths |-> [ark_path |-> ark.path, ask_path |-> asvk.path,
                              vek_path |-> vlek.path, vek_type |-> s_vlek,
                              sign_type |-> s_asvk]]
        ELSE IF ~vcek.ok THEN [res |-> NotFound(s_vcek), paths |-> NoPaths]
        ELSE IF ~ask.ok THEN [res |-> NotFound(s_ask), paths |-> NoPaths]
        ELSE [res |-> Ok,
              paths |-> [ark_path |-> ark.path, ask_path |-> ask.path,
                         vek_path |-> vcek.path, vek_type |-> s_vcek,
                         sign_type |-> s_ask]]

\* io::ErrorKind of a failed verify(); ErrorKind::Other is the kind the
\* code reads as "signature does not validate"
ErrorKinds == {"Other", "InvalidData", "Unsupported"}
VerifyOutcomes == {"Ok"} \cup ErrorKinds
NoChain == [ark_ark |-> "", ark_ask |-> "", ask_vek |-> ""]
Chains == [ark_ark : VerifyOutcomes, ark_ask : VerifyOutcomes,
           ask_vek : VerifyOutcomes]

\* variant of ArkVerdict that reads every error kind as a mismatch
ArkVerdict_AnyKindMismatch(o) ==
    IF o = "Ok" THEN Ok
    ELSE Err("The AMD ARK is not self-signed!", <<>>)

\* lines 85-100
ArkVerdict(o) ==
    IF o = "Ok" THEN Ok
    ELSE IF o = "Other" THEN Err("The AMD ARK is not self-signed!", <<>>)
    ELSE Err("Failed to verify the ARK cerfificate: {:?}", <<o>>)

\* variant of AskVerdict that names the intermediate ASK for both variants
AskVerdict_AlwaysAsk(o, sign_type) ==
    IF o = "Ok" THEN Ok
    ELSE IF o = "Other"
    THEN Err("The AMD {} was not signed by the AMD ARK!",
             <<to_uppercase(s_ask)>>)
    ELSE Err("Failed to verify ASK certificate: {:?}", <<o>>)

\* lines 102-120
AskVerdict(o, sign_type) ==
    IF o = "Ok" THEN Ok
    ELSE IF o = "Other"
    THEN Err("The AMD {} was not signed by the AMD ARK!",
             <<to_uppercase(sign_type)>>)
    ELSE Err("Failed to verify ASK certificate: {:?}", <<o>>)

\* variant of VekVerdict that returns an error for a mismatch only
VekVerdict_MismatchOnly(o, vek_type, sign_type) ==
    IF o = "Other"
    THEN Err("The {} was not signed by the AMD {}!",
             <<to_uppercase(vek_type), to_uppercase(sign_type)>>)
    ELSE Ok

\* lines 122-142
VekVerdict(o, vek_type, sign_type) ==
    IF o = "Ok" THEN Ok
    ELSE IF o = "Other"
    THEN Err("The {} was not signed by the AMD {}!",
             <<to_uppercase(vek_type), to_uppercase(sign_type)>>)
    ELSE Err("Failed to verify VEK certificate: {:?}", <<o>>)

ChainInit ==
    /\ pc = "resolve"
    /\ result = Pending
    /\ dir \in SUBSET FileNames
    /\ paths = NoPaths
    /\ chain = NoChain
    /\ evaluated = <<>>

ResolvePaths ==
    /\ pc = "resolve"
    /\ LET r == resolve_chain_paths(dir)
       IN  /\ paths' = r.paths
           /\ IF r.res.ok
              THEN pc' = "load" /\ UNCHANGED result
              ELSE pc' = "done" /\ result' = r.res
    /\ UNCHANGED <<dir, chain, evaluated>>
    /\ UNCHANGED <<tcbVars, codecVars, sigVars, attVars>>

\* lines 73-82: CertPaths -> Chain; reading or decoding a file may fail
LoadChain ==
    /\ pc = "load"
    /\ \/ /\ pc' = "done"
          /\ result' = Err("<CertPaths::try_into error>", <<>>)
          /\ UNCHANGED chain
       \/ /\ \E c \in Chains : chain' = c
          /\ pc' = "verify_ark"
          /\ UNCHANGED result
    /\ UNCHANGED <<dir, paths, evaluated>>
    /\ UNCHANGED <<tcbVars, codecVars, sigVars, attVars>>

VerifyArk ==
    /\ pc = "verify_ark"
    /\ evaluated' = Append(evaluated, "ark_ark")
    /\ LET r == ArkVerdict(chain.ark_ark)
       IN  IF r.ok
           THEN pc' = "verify_ask" /\ UNCHANGED result
           ELSE pc' = "done" /\ result' = r
    /\ UNCHANGED <<dir, paths, chain>>
    /\ UNCHANGED <<tcbVars, codecVars, sigVars, attVars>>

\* variant of VerifyAsk that goes on to the VEK check after a failure
VerifyAsk_NoStop ==
    /\ pc = "verify_ask"
    /\ evaluated' = Append(evaluated, "ark_ask")
    /\ LET r == AskVerdict(chain.ark_ask, paths.sign_type)
       IN  /\ pc' = "verify_vek"
           /\ IF r.ok THEN UNCHANGED result ELSE result' = r
    /\ UNCHANGED <<dir, paths, chain>>
    /\ UNCHANGED <<tcbVars, codecVars, sigVars, attVars>>

VerifyAsk ==
    /\ pc = "verify_ask"
    /\ evaluated' = Append(evaluated, "ark_ask")
    /\ LET r == AskVerdict(chain.ark_ask, paths.sign_type)
       IN  IF r.ok
           THEN pc' = "verify_vek" /\ UNCHANGED result
           ELSE pc' = "done" /\ result' = r
    /\ UNCHANGED <<dir, paths, chain>>
    /\ UNCHANGED <<tcbVars, codecVars, sigVars, attVars>>

VerifyVek ==
    /\ pc = "verify_vek"
    /\ evaluated' = Append(evaluated, "ask_vek")
    /\ pc' = "done"
    /\ result' = VekVerdict(chain.ask_vek, paths.vek_type, paths.sign_type)
    /\ UNCHANGED <<dir, paths, chain>>
    /\ UNCHANGED <<tcbVars, codecVars, sigVars, attVars>>

ChainIdle ==
    /\ dir = {}
    /\ paths = NoPaths
    /\ chain = NoChain
    /\ evaluated = <<>>

-----------------------------------------------------------------------------
(* attestation::check_cert_bytes *)

OctetLen == 64

\* variant of check_cert_bytes whose OCTET STRING arm returns false, without
\* a panic, when the expected value is not 64 bytes long
check_cert_bytes_NoValLenPanic(e, v) ==
    IF Len(e) = 0 THEN "panic: index out of bounds"
    ELSE IF e[1] = 2
    THEN IF Len(e) < 2 THEN "panic: index out of bounds"
         ELSE IF e[2] # 1 /\ e[2] # 2
         THEN "panic: Invalid octet length encountered!"
         ELSE IF Len(v) = 0 THEN "panic: index out of bounds"
         ELSE IF e[Len(e)] = v[1] THEN "true" ELSE "false"
    ELSE IF e[1] = 4
    THEN IF Len(e) < 2 THEN "panic: index out of bounds"
         ELSE IF e[2] # OctetLen
         THEN "panic: Invalid octet length encountered!"
         ELSE IF Len(e) - 2 # OctetLen
         THEN "panic: Invalid size of bytes encountered!"
         ELSE IF SubSeq(e, 3, Len(e)) = v THEN "true" ELSE "false"
    ELSE IF Len(e) = OctetLen /\ Len(v) = OctetLen
         THEN IF e = v THEN "true" ELSE "false"
         ELSE "panic: Invalid type encountered!"

\* variant of check_cert_bytes whose INTEGER arm compares the length byte
check_cert_bytes_LengthByte(e, v) ==
    IF Len(e) = 0 THEN "panic: index out of bounds"
    ELSE IF e[1] = 2
    THEN IF Len(e) < 2 THEN "panic: index out of bounds"
         ELSE IF e[2] # 1 /\ e[2] # 2
         THEN "panic: Invalid octet length encountered!"
         ELSE IF Len(v) = 0 THEN "panic: index out of bounds"
         ELSE IF e[2] = v[1] THEN "true" ELSE "false"
    ELSE IF e[1] = 4
    THEN IF Len(e) < 2 THEN "panic: index out of bounds"
         ELSE IF e[2] # OctetLen
         THEN "panic: Invalid octet length encountered!"
         ELSE IF Len(e) - 2 # OctetLen
         THEN "panic: Invalid size of bytes encountered!"
         ELSE IF Len(v) # OctetLen
         THEN "panic: Invalid certificate harward id length encountered!"
         ELSE IF SubSeq(e, 3, Len(e)) = v THEN "true" ELSE "false"
    ELSE IF Len(e) = OctetLen /\ Len(v) = OctetLen
         THEN IF e = v THEN "true" ELSE "false"
         ELSE "panic: Invalid type encountered!"

\* variant of check_cert_bytes whose INTEGER arm compares the whole
\* big-endian content, of the declared length, with the expected byte
check_cert_bytes_WholeInteger(e, v) ==
    IF Len(e) = 0 THEN "panic: index out of bounds"
    ELSE IF e[1] = 2
    THEN IF Len(e) < 2 THEN "panic: index out of bounds"
         ELSE IF e[2] # 1 /\ e[2] # 2
         THEN "panic: Invalid octet length encountered!"
         ELSE IF Len(v) = 0 THEN "panic: index out of bounds"
         ELSE IF /\ Len(e) - 2 = e[2]
                 /\ e[Len(e)] = v[1]
                 /\ \A i \in 3..(Len(e) - 1) : e[i] = 0
              THEN "true" ELSE "false"
    ELSE IF e[1] = 4
    THEN IF Len(e) < 2 THEN "panic: index out of bounds"
         ELSE IF e[2] # OctetLen
         THEN "panic: Invalid octet length encountered!"
         ELSE IF Len(e) - 2 # OctetLen
         THEN "panic: Invalid size of bytes encountered!"
         ELSE IF Len(v) # OctetLen
         THEN "panic: Invalid certificate harward id length encountered!"
         ELSE IF SubSeq(e, 3, Len(e)) = v THEN "true" ELSE "false"
    ELSE IF Len(e) = OctetLen /\ Len(v) = OctetLen
         THEN IF e = v THEN "true" ELSE "false"
         ELSE "panic: Invalid type encountered!"

\* Returns "true" or "false", or the panic that aborts the process.
\* ext.value[i] of the code is e[i + 1] here.
check_cert_bytes(e, v) ==
    IF Len(e) = 0 THEN "panic: index out of bounds"
    ELSE IF e[1] = 2
    THEN IF Len(e) < 2 THEN "panic: index out of bounds"
         ELSE IF e[2] # 1 /\ e[2] # 2
         THEN "panic: Invalid octet length encountered!"
         ELSE IF Len(v) = 0 THEN "panic: index out of bounds"
         ELSE IF e[Len(e)] = v[1] THEN "true" ELSE "false"
    ELSE IF e[1] = 4
    THEN IF Len(e) < 2 THEN "panic: index out of bounds"
         ELSE IF e[2] # OctetLen
         THEN "panic: Invalid octet length encountered!"
         ELSE IF Len(e) - 2 # OctetLen
         THEN "panic: Invalid size of bytes encountered!"
         ELSE IF Len(v) # OctetLen
         THEN "panic: Invalid certificate harward id length encountered!"
         ELSE IF SubSeq(e, 3, Len(e)) = v THEN "true" ELSE "false"
    ELSE IF Len(e) = OctetLen /\ Len(v) = OctetLen
         THEN IF e = v THEN "true" ELSE "false"
         ELSE "panic: Invalid type encountered!"

IsPanic(r) == r \notin {"true", "false"}

\* u8::to_le_bytes
to_le_bytes(b) == <<b>>

-----------------------------------------------------------------------------
(* attestation::parse_common_name *)

CertTypes == {"ARK", "ASK", "VCEK", "VLEK", "CRL"}

\* field is the Option of the first subject common name readable as a string
parse_common_name(field) ==
    IF IsSome(field)
    THEN LET x == to_lowercase(Unwrap(field))
         IN  IF contains(x, s_ark) THEN [ok |-> TRUE, type |-> "ARK", err |-> ""]
             ELSE IF contains(x, s_ask) \/ contains(x, s_sev)
             THEN [ok |-> TRUE, type |-> "ASK", err |-> ""]
             ELSE IF contains(x, s_vcek)
             THEN [ok |-> TRUE, type |-> "VCEK", err |-> ""]
             ELSE IF contains(x, s_vlek)
             THEN [ok |-> TRUE, type |-> "VLEK", err |-> ""]
             ELSE IF contains(x, s_crl)
             THEN [ok |-> TRUE, type |-> "CRL", err |-> ""]
             ELSE [ok |-> FALSE, type |-> "",
                   err |-> "Unknown certificate type encountered!"]
    ELSE [ok |-> FALSE, type |-> "",
          err |-> "Certificate Subject Common Name is Unknown!"]

-----------------------------------------------------------------------------
(* attestation::verify_attestation_tcb *)

\* a VEK certificate of the model carries at most MaxExts of the six
\* SNP extensions
MaxExts == 3

SnpOids == {"BootLoader", "Tee", "Snp", "Ucode", "HwId", "Fmc"}

IdA == [i \in 1..OctetLen |-> i]
IdB == [i \in 1..OctetLen |-> IF i = OctetLen THEN 0 ELSE i]

\* raw extension values: DER INTEGER 3 and 4, an INTEGER of length 3
IntExts == {<<2, 1, 3>>, <<2, 1, 4>>, <<2, 3, 0, 0, 3>>}
\* DER OCTET STRING of IdA, the legacy raw form of IdA, a short OCTET STRING
HwIdExts == {<<4, OctetLen>> \o IdA, IdA, <<4, 63>> \o SubSeq(IdA, 1, 63)}

ExtChoices(oid) ==
    {None} \cup {Some(x) : x \in (IF oid = "HwId" THEN HwIdExts ELSE IntExts)}

ExtensionMaps ==
    {m \in [BootLoader : ExtChoices("BootLoader"), Tee : ExtChoices("Tee"),
             Snp : ExtChoices("Snp"), Ucode : ExtChoices("Ucode"),
             HwId : ExtChoices("HwId"), Fmc : ExtChoices("Fmc")] :
        Cardinality({o \in SnpOids : IsSome(m[o])}) <= MaxExts}

TcbA == [bootloader |-> 3, tee |-> 3, snp |-> 3, microcode |-> 3]
TcbB == [bootloader |-> 3, tee |-> 4, snp |-> 3, microcode |-> 4]

\* fmc is None in every version 2 report
Reports ==
    {[version |-> vf[1],
      reported_tcb |-> [bootloader |-> tc[1].bootloader, tee |-> tc[1].tee,
                        snp |-> tc[1].snp, microcode |-> tc[1].microcode,
                        fmc |-> vf[2]],
      chip_id |-> tc[2]] :
        vf \in {<<2, None>>, <<3, None>>, <<3, Some(3)>>, <<3, Some(4)>>},
        tc \in {<<TcbA, IdA>>, <<TcbB, IdB>>}}

ProcTypes == {"Genoa", "Turin"}

CommonNames ==
    {None,
     Some(<<"S","E","V","-","V","C","E","K">>),
     Some(<<"V","C","E","K">>),
     Some(<<"v","l","e","k">>),
     Some(<<"A","R","K","-","M","i","l","a","n">>),
     Some(<<"M","i","l","a","n">>)}

NoRole == <<>>

TcbInit ==
    /\ pc = "tcb_parse"
    /\ result = Pending
    /\ cn \in CommonNames
    /\ extensions \in ExtensionMaps
    /\ att_report \in Reports
    /\ proc_model \in ProcTypes
    /\ common_name = NoRole
    /\ compared = <<>>

\* lines 308-317
ParseVek ==
    /\ pc = "tcb_parse"
    /\ \/ /\ \E m \in {"Could not convert VEK to der.",
                       "Could not create X509Certificate from der",
                       "Failed getting VEK oids."} :
                result' = Err(m, <<>>)
          /\ pc' = "done"
          /\ UNCHANGED common_name
       \/ LET r == parse_common_name(cn)
          IN  IF r.ok
              THEN /\ common_name' = Some(r.type)
                   /\ pc' = "cmp_bl"
                   /\ UNCHANGED result
              ELSE /\ result' = Err(r.err, <<>>)
                   /\ pc' = "done"
                   /\ UNCHANGED common_name
    /\ UNCHANGED <<cn, extensions, att_report, proc_model, compared>>
    /\ UNCHANGED <<chainVars, codecVars, sigVars, attVars>>

\* variant of CompareField that falls through after a mismatch
CompareField_FallThrough(oid, expected, msg, next) ==
    /\ IF IsSome(extensions[oid])
       THEN LET r == check_cert_bytes(Unwrap(extensions[oid]), expected)
            IN  /\ compared' = Append(compared, <<oid, r>>)
                /\ IF r = "true" \/ r = "false" THEN next
                   ELSE pc' = "done" /\ result' = Panic(r)
       ELSE next /\ UNCHANGED compared
    /\ UNCHANGED <<cn, extensions, att_report, proc_model, common_name>>
    /\ UNCHANGED <<chainVars, codecVars, sigVars, attVars>>

\* `if let Some(cert_x) = extensions.get(oid) { if !check_cert_bytes(..) {
\* return Err(msg) } }`, then fall through to `next`
CompareField(oid, expected, msg, next) ==
    /\ IF IsSome(extensions[oid])
       THEN LET r == check_cert_bytes(Unwrap(extensions[oid]), expected)
            IN  /\ compared' = Append(compared, <<oid, r>>)
                /\ IF r = "true" THEN next
                   ELSE IF r = "false"
                   THEN pc' = "done" /\ result' = Err(msg, <<>>)
                   ELSE pc' = "done" /\ result' = Panic(r)
       ELSE next /\ UNCHANGED compared
    /\ UNCHANGED <<cn, extensions, att_report, proc_model, common_name>>
    /\ UNCHANGED <<chainVars, codecVars, sigVars, attVars>>

Goto(l) == pc' = l /\ UNCHANGED result

\* variant of CompareBootLoader that fails when the extension is absent
CompareBootLoader_RequiresExtension ==
    /\ pc = "cmp_bl"
    /\ IF IsSome(extensions["BootLoader"])
       THEN CompareField("BootLoader",
                         to_le_bytes(att_report.reported_tcb.bootloader),
                         "Report TCB Boot Loader and Certificate Boot Loader mismatch encountered.",
                         Goto("cmp_tee"))
       ELSE /\ pc' = "done"
            /\ result' = Err("Report TCB Boot Loader and Certificate Boot Loader mismatch encountered.", <<>>)
            /\ UNCHANGED tcbVars
            /\ UNCHANGED <<chainVars, codecVars, sigVars, attVars>>

\* lines 319-331
CompareBootLoader ==
    /\ pc = "cmp_bl"
    /\ CompareField("BootLoader",
                    to_le_bytes(att_report.reported_tcb.bootloader),
                    "Report TCB Boot Loader and Certificate Boot Loader mismatch encountered.",
                    Goto("cmp_tee"))

\* lines 333-343
CompareTee ==
    /\ pc = "cmp_tee"
    /\ CompareField("Tee", to_le_bytes(att_report.reported_tcb.tee),
                    "Report TCB TEE and Certificate TEE mismatch encountered.",
                    Goto("cmp_snp"))

\* lines 345-355
CompareSnp ==
    /\ pc = "cmp_snp"
    /\ CompareField("Snp", to_le_bytes(att_report.reported_tcb.snp),
                    "Report TCB SNP and Certificate SNP mismatch encountered.",
                    Goto("cmp_ucode"))

\* lines 357-367
CompareUcode ==
    /\ pc = "cmp_ucode"
    /\ CompareField("Ucode", to_le_bytes(att_report.reported_tcb.microcode),
                    "Report TCB Microcode and Certificate Microcode mismatch encountered.",
                    Goto("cmp_hwid"))

\* variant of CompareHwId that compares the chip id for every certificate type
CompareHwId_AnyType ==
    /\ pc = "cmp_hwid"
    /\ CompareField("HwId", att_report.chip_id,
                    "Report TCB ID and Certificate ID mismatch encountered.",
                    Goto("turin"))

\* lines 369-381
CompareHwId ==
    /\ pc = "cmp_hwid"
    /\ IF common_name = Some("VCEK")
       THEN CompareField("HwId", att_report.chip_id,
                         "Report TCB ID and Certificate ID mismatch encountered.",
                         Goto("turin"))
       ELSE /\ Goto("turin")
            /\ UNCHANGED tcbVars
            /\ UNCHANGED <<chainVars, codecVars, sigVars, attVars>>

\* variant of CheckTurin without the report version gate
CheckTurin_NoVersionGate ==
    /\ pc = "turin"
    /\ IF proc_model = "Turin"
       THEN Goto("cmp_fmc")
       ELSE pc' = "done" /\ result' = Ok
    /\ UNCHANGED tcbVars
    /\ UNCHANGED <<chainVars, codecVars, sigVars, attVars>>

\* variant of CheckTurin that rejects version 3 reports too
CheckTurin_RejectsVersion3 ==
    /\ pc = "turin"
    /\ IF proc_model = "Turin"
       THEN IF att_report.version <= 3
            THEN /\ pc' = "done"
                 /\ result' = Err("Turin Attestation is not supported in version 2 of the report.", <<>>)
            ELSE Goto("cmp_fmc")
       ELSE pc' = "done" /\ result' = Ok
    /\ UNCHANGED tcbVars
    /\ UNCHANGED <<chainVars, codecVars, sigVars, attVars>>

\* lines 383-388 and 402-404
CheckTurin ==
    /\ pc = "turin"
    /\ IF proc_model = "Turin"
       THEN IF att_report.version < 3
            THEN /\ pc' = "done"
                 /\ result' = Err("Turin Attestation is not supported in version 2 of the report.", <<>>)
            ELSE Goto("cmp_fmc")
       ELSE pc' = "done" /\ result' = Ok
    /\ UNCHANGED tcbVars
    /\ UNCHANGED <<chainVars, codecVars, sigVars, attVars>>

\* lines 389-404; the argument reported_tcb.fmc.unwrap() is evaluated
\* before check_cert_bytes is called
CompareFmc ==
    /\ pc = "cmp_fmc"
    /\ IF IsSome(extensions["Fmc"]) /\ ~IsSome(att_report.reported_tcb.fmc)
       THEN /\ pc' = "done"
            /\ result' = Panic("called Option::unwrap() on a None value")
            /\ UNCHANGED tcbVars
            /\ UNCHANGED <<chainVars, codecVars, sigVars, attVars>>
       ELSE CompareField("Fmc",
                         IF IsSome(att_report.reported_tcb.fmc)
                         THEN to_le_bytes(Unwrap(att_report.reported_tcb.fmc))
                         ELSE <<>>,
                         "Report TCB FMC and Certificate FMC mismatch encountered.",
                         pc' = "done" /\ result' = Ok)

TcbIdle ==
    /\ cn = None
    /\ extensions = [o \in SnpOids |-> None]
    /\ att_report = [version |-> 0,
                     reported_tcb |-> [bootloader |-> 0, tee |-> 0, snp |-> 0,
                                       microcode |-> 0, fmc |-> None],
                     chip_id |-> <<>>]
    /\ proc_model = ""
    /\ common_name = NoRole
    /\ compared = <<>>

-----------------------------------------------------------------------------
(* a stand-alone call of check_cert_bytes *)

\* byte values the stand-alone call draws from
MaxByte == 4

Bytes == 0..MaxByte

CodecExts ==
    {<<t, l, b>> : t \in {2, 4, 0}, l \in {0, 1, 2, 3}, b \in Bytes}
    \cup {<<2, 2, h, b>> : h \in {0, 1}, b \in Bytes}
    \cup {<<2>>, <<>>}

CodecVals == {<<b>> : b \in Bytes} \cup {<<>>}

\* 64-byte values whose first byte is 1, 0, the INTEGER tag and the OCTET
\* STRING tag
IdZ == [i \in 1..OctetLen |-> IF i = 1 THEN 0 ELSE i]
Id2 == [i \in 1..OctetLen |-> IF i = 1 THEN 2 ELSE i]
Id4 == [i \in 1..OctetLen |-> IF i = 1 THEN 4 ELSE i]
LegacyIds == {IdA, IdZ, Id2, Id4}

\* b with bit k inverted
FlipBit(b, k) == IF (b \div 2^k) % 2 = 1 THEN b - 2^k ELSE b + 2^k
FlipPositions == {1, 2, OctetLen}
Flips(x) == {[x EXCEPT ![p] = FlipBit(@, k)] : p \in FlipPositions, k \in 0..7}

\* OCTET STRING extensions with a right or wrong length byte and content
\* length, against expected values of 64 bytes and other lengths
OctetInputs ==
    {<<<<4, l>> \o c, v>> :
        l \in {OctetLen - 1, OctetLen},
        c \in {IdA, IdB, SubSeq(IdA, 1, OctetLen - 1), IdA \o <<0>>},
        v \in {IdA, IdB, SubSeq(IdA, 1, OctetLen - 1), <<>>}}

\* a raw 64-byte extension against itself and its single-bit flips, both ways
LegacyInputs ==
    UNION {{<<x, x>>} \cup {<<x, y>> : y \in Flips(x)}
                      \cup {<<y, x>> : y \in Flips(x)} : x \in LegacyIds}

\* the microcode value of the test certificate (02 02 00 a9) and values
\* around it
UcodeBytes == {0, 1, 168, 169}

\* INTEGER extensions with length byte 1 or 2 and zero to three content
\* bytes, against expected values of one, two and 64 bytes
IntegerInputs ==
    {<<<<2, l>> \o c, v>> :
        l \in {1, 2},
        c \in {<<>>} \cup {<<b>> : b \in UcodeBytes}
               \cup {<<h, b>> : h \in {0, 1}, b \in UcodeBytes}
               \cup {<<1, h, 169>> : h \in {0, 1}},
        v \in {<<b>> : b \in UcodeBytes} \cup {<<169, 1>>, <<1, 169>>, IdA}}

CodecInputs ==
    (CodecExts \X CodecVals) \cup OctetInputs \cup LegacyInputs
        \cup IntegerInputs

CodecInit ==
    /\ pc = "call"
    /\ result = Pending
    /\ \E in \in CodecInputs : ext = in[1] /\ val = in[2]
    /\ ccb = ""

CheckCertBytes ==
    /\ pc = "call"
    /\ ccb' = check_cert_bytes(ext, val)
    /\ pc' = "done"
    /\ UNCHANGED <<result, ext, val>>
    /\ UNCHANGED <<chainVars, tcbVars, sigVars, attVars>>

CodecIdle ==
    /\ ext = <<>>
    /\ val = <<>>
    /\ ccb = ""

-----------------------------------------------------------------------------
(* attestation::verify_attestation_signature *)

\* report_bytes[0x0..0x2A0] is signed; the serialized report is 0x4A0 bytes,
\* its signature field being the last 0x200
SignedLen == 672
ReportLen == 1184

\* Sha384 as a collision-free hash: the digest of a message is identified by
\* the message
Sha384(msg) == [sha384 |-> msg]

KeyIds == {"k1", "k2"}

\* a VEK key: what public_key() and ec_key() return, and the key's identity
VekKeys ==
    {[public_key |-> "ok", ec_key |-> "ok", id |-> "k1"],
     [public_key |-> "err", ec_key |-> "ok", id |-> "k1"],
     [public_key |-> "ok", ec_key |-> "err", id |-> "k1"]}
NoKey == [public_key |-> "", ec_key |-> "", id |-> ""]

\* an ECDSA signature: whether EcdsaSig::try_from accepts it, whether
\* verify() can evaluate it, and the key and digest it was made with
Sig(p, u, k, d) == [parsable |-> p, usable |-> u, signer |-> k, digest |-> d]
NoSig == Sig(FALSE, FALSE, "", None)

\* EcdsaSig::verify: Err, Ok(true) or Ok(false)
EcdsaVerify(sg, d, key) ==
    IF ~sg.usable THEN "err"
    ELSE IF sg.signer = key.id /\ sg.digest = d THEN "true"
    ELSE "false"

\* variant of SignedBytes that leaves out the last signed byte
SignedBytes_OneShort(bytes) == SubSeq(bytes, 1, SignedLen - 1)

\* line 221
SignedBytes(bytes) == SubSeq(bytes, 1, SignedLen)

\* variant of SigVerdict that reports an error of verify() as a mismatch
SigVerdict_ErrIsMismatch(v) ==
    IF v = "true" THEN Ok
    ELSE Err("VEK did NOT sign the Attestation Report!", <<>>)

\* lines 230-241
SigVerdict(v) ==
    IF v = "err"
    THEN Err("Failed to verify attestation report signature with VEK public key.", <<>>)
    ELSE IF v = "true" THEN Ok
    ELSE Err("VEK did NOT sign the Attestation Report!", <<>>)

\* two serialized reports
BytesA == [i \in 1..ReportLen |-> i % 256]
BytesB == [i \in 1..ReportLen |-> 0]

\* positions of a serialized report (first is 1): the first, second and
\* last signed byte, and two bytes of the reserved tail of the signature field
TamperPositions == {1, 2, SignedLen, SignedLen + 145, ReportLen}
Tampered(bytes) ==
    {[bytes EXCEPT ![p] = FlipBit(@, k)] : p \in TamperPositions, k \in {0, 7}}

\* the report a signer signed and the report presented, with the signature
SigInputs ==
    UNION {{[bytes |-> b, sig |-> Sig(pa, u, k, Sha384(SubSeq(o, 1, SignedLen)))] :
              b \in {o} \cup Tampered(o), k \in KeyIds,
              pa \in BOOLEAN, u \in BOOLEAN} : o \in {BytesA, BytesB}}

SigInit ==
    /\ pc = "sig_key"
    /\ result = Pending
    /\ vek_key \in VekKeys
    /\ \E in \in SigInputs :
          /\ report_bytes \in {Some(in.bytes), None}
          /\ signature = in.sig
    /\ digest = None

\* lines 210-214
SigKey ==
    /\ pc = "sig_key"
    /\ IF vek_key.public_key # "ok"
       THEN /\ result' = Err("Failed to get the public key from the VEK.", <<>>)
            /\ pc' = "done"
       ELSE IF vek_key.ec_key # "ok"
       THEN /\ result' = Err("Failed to convert VEK public key into ECkey.", <<>>)
            /\ pc' = "done"
       ELSE pc' = "sig_parse" /\ UNCHANGED result
    /\ UNCHANGED <<sigVars, attVars>>
    /\ UNCHANGED <<chainVars, tcbVars, codecVars>>

\* lines 216-218
SigParse ==
    /\ pc = "sig_parse"
    /\ IF ~signature.parsable
       THEN /\ result' = Err("Failed to get ECDSA Signature from attestation report.", <<>>)
            /\ pc' = "done"
       ELSE pc' = "sig_hash" /\ UNCHANGED result
    /\ UNCHANGED <<sigVars, attVars>>
    /\ UNCHANGED <<chainVars, tcbVars, codecVars>>

\* lines 219-227; report_bytes is None when write_bytes fails
SigHash ==
    /\ pc = "sig_hash"
    /\ IF ~IsSome(report_bytes)
       THEN /\ result' = Err("<write_bytes error>", <<>>)
            /\ pc' = "done"
            /\ UNCHANGED digest
       ELSE IF Len(Unwrap(report_bytes)) < SignedLen
       THEN /\ result' = Panic("range end index out of range for slice")
            /\ pc' = "done"
            /\ UNCHANGED digest
       ELSE /\ digest' = Some(Sha384(SignedBytes(Unwrap(report_bytes))))
            /\ pc' = "sig_verify"
            /\ UNCHANGED result
    /\ UNCHANGED <<vek_key, signature, report_bytes, attVars>>
    /\ UNCHANGED <<chainVars, tcbVars, codecVars>>

\* lines 229-241
SigVerify ==
    /\ pc = "sig_verify"
    /\ result' = SigVerdict(EcdsaVerify(signature, Unwrap(digest), vek_key))
    /\ pc' = "done"
    /\ UNCHANGED <<sigVars, attVars>>
    /\ UNCHANGED <<chainVars, tcbVars, codecVars>>

SigIdle ==
    /\ vek_key = NoKey
    /\ signature = NoSig
    /\ report_bytes = None
    /\ digest = None

AttIdle ==
    /\ args = [report_exists |-> FALSE, processor_model |-> None,
               tcb |-> FALSE, signature |-> FALSE]
    /\ ran = <<>>
    /\ returned = <<>>

-----------------------------------------------------------------------------
(* attestation::verify_attestation *)

LeafFiles == {c \o e : c \in {s_vlek, s_vcek}, e \in {s_pem, s_der}}

\* --tcb and --signature exclude each other (conflicts_with)
AttArgs ==
    {a \in [report_exists : BOOLEAN,
            processor_model : {None, Some("Genoa"), Some("Turin")},
            tcb : BOOLEAN, signature : BOOLEAN] :
        ~(a.tcb /\ a.signature)}

\* the signatures of the reports read from att_report_path: made over the
\* serialized report by the key k1 or by the key k2
AttSignatures ==
    {Sig(TRUE, TRUE, k, Sha384(SubSeq(BytesA, 1, SignedLen))) : k \in KeyIds}

ExtMap(bl, tee, snp, ucode, hwid, fmc) ==
    [BootLoader |-> bl, Tee |-> tee, Snp |-> snp, Ucode |-> ucode,
     HwId |-> hwid, Fmc |-> fmc]

\* the extensions of the VEK certificates read from the directory: none;
\* the values of TcbA and IdA with and without fmc; the chip id only, in the
\* legacy form; tee = 4 only
AttExtensionMaps ==
    {ExtMap(None, None, None, None, None, None),
     ExtMap(Some(<<2, 1, 3>>), Some(<<2, 1, 3>>), Some(<<2, 1, 3>>),
            Some(<<2, 1, 3>>), Some(<<4, OctetLen>> \o IdA), Some(<<2, 1, 3>>)),
     ExtMap(Some(<<2, 1, 3>>), Some(<<2, 1, 3>>), Some(<<2, 1, 3>>),
            Some(<<2, 1, 3>>), Some(<<4, OctetLen>> \o IdA), None),
     ExtMap(None, None, None, None, Some(IdA), None),
     ExtMap(None, Some(<<2, 1, 4>>), None, None, None, None)}

AttCommonNames ==
    {Some(<<"S","E","V","-","V","C","E","K">>),
     Some(<<"V","C","E","K">>),
     Some(<<"S","E","V","-","V","L","E","K">>)}

AttInit ==
    /\ pc = "att_start"
    /\ result = Pending
    /\ dir \in SUBSET LeafFiles
    /\ args \in AttArgs
    /\ ran = <<>>
    /\ returned = <<>>
    /\ paths = NoPaths
    /\ chain = NoChain
    /\ evaluated = <<>>

\* lines 408-414
ReadReport ==
    /\ pc = "att_start"
    /\ IF ~args.report_exists
       THEN /\ result' = Err("No attestation report was found. Provide an attestation report to request VEK from the KDS.", <<>>)
            /\ pc' = "end"
            /\ UNCHANGED <<att_report, report_bytes, signature>>
       ELSE \/ /\ result' = Err("Could not open attestation report", <<>>)
               /\ pc' = "end"
               /\ UNCHANGED <<att_report, report_bytes, signature>>
            \/ /\ att_report' \in Reports
               /\ report_bytes' = Some(BytesA)
               /\ signature' \in AttSignatures
               /\ pc' = "att_proc"
               /\ UNCHANGED result
    /\ UNCHANGED <<cn, extensions, proc_model, common_name, compared>>
    /\ UNCHANGED <<vek_key, digest, attVars, chainVars, codecVars>>

\* lines 416-422; get_processor_model derives the model from the report
ProcModel ==
    /\ pc = "att_proc"
    /\ IF IsSome(args.processor_model)
       THEN /\ proc_model' = Unwrap(args.processor_model)
            /\ pc' = "att_find"
            /\ UNCHANGED result
       ELSE \/ /\ \E m \in {"Could not open attestation report",
                            "<get_processor_model error>"} :
                     result' = Err(m, <<>>)
               /\ pc' = "end"
               /\ UNCHANGED proc_model
            \/ /\ proc_model' \in ProcTypes
               /\ pc' = "att_find"
               /\ UNCHANGED result
    /\ UNCHANGED <<cn, extensions, att_report, common_name, compared>>
    /\ UNCHANGED <<sigVars, attVars, chainVars, codecVars>>

\* lines 424-428
FindVek ==
    /\ pc = "att_find"
    /\ LET vlek == find_cert_in_dir(dir, s_vlek)
           vcek == find_cert_in_dir(dir, s_vcek)
       IN  IF vlek.ok
           THEN /\ paths' = [paths EXCEPT !.vek_path = vlek.path,
                                          !.vek_type = s_vlek]
                /\ pc' = "att_load"
                /\ UNCHANGED result
           ELSE IF vcek.ok
           THEN /\ paths' = [paths EXCEPT !.vek_path = vcek.path,
                                          !.vek_type = s_vcek]
                /\ pc' = "att_load"
                /\ UNCHANGED result
           ELSE /\ result' = NotFound(s_vcek)
                /\ pc' = "end"
                /\ UNCHANGED paths
    /\ UNCHANGED <<dir, chain, evaluated>>
    /\ UNCHANGED <<tcbVars, sigVars, attVars, codecVars>>

\* lines 430-431: convert_path_to_cert reads and decodes the file
LoadVek ==
    /\ pc = "att_load"
    /\ \/ /\ result' = Err("<convert_path_to_cert error>", <<>>)
          /\ pc' = "end"
          /\ UNCHANGED <<cn, extensions, vek_key>>
       \/ /\ cn' \in AttCommonNames
          /\ extensions' \in AttExtensionMaps
          /\ vek_key' = [public_key |-> "ok", ec_key |-> "ok", id |-> "k1"]
          /\ pc' = "att_dispatch"
          /\ UNCHANGED result
    /\ UNCHANGED <<att_report, proc_model, common_name, compared>>
    /\ UNCHANGED <<signature, report_bytes, digest>>
    /\ UNCHANGED <<attVars, chainVars, codecVars>>

\* lines 433-443: the sub-checks the flags select
RunsTcb(a) == a.tcb \/ ~(a.tcb \/ a.signature)
RunsSignature(a) == a.signature \/ ~(a.tcb \/ a.signature)

\* the first sub-check is called
Dispatch ==
    /\ pc = "att_dispatch"
    /\ IF RunsTcb(args)
       THEN pc' = "tcb_parse" /\ ran' = <<"tcb">>
       ELSE pc' = "sig_key" /\ ran' = <<"signature">>
    /\ UNCHANGED <<result, args, returned>>
    /\ UNCHANGED <<chainVars, tcbVars, sigVars, codecVars>>

\* variant of TcbReturns that calls the signature check after a failed TCB
\* check too
TcbReturns_NoQuestionMark ==
    /\ pc = "done"
    /\ ran = <<"tcb">>
    /\ returned = <<>>
    /\ returned' = <<result>>
    /\ IF RunsSignature(args)
       THEN pc' = "sig_key" /\ result' = Pending /\ ran' = <<"tcb", "signature">>
       ELSE pc' = "end" /\ UNCHANGED <<result, ran>>
    /\ UNCHANGED args
    /\ UNCHANGED <<chainVars, tcbVars, sigVars, codecVars>>

\* verify_attestation_tcb(..)? returns: an error (or the abort) ends
\* verify_attestation, Ok(()) is followed by the signature check if selected
TcbReturns ==
    /\ pc = "done"
    /\ ran = <<"tcb">>
    /\ returned = <<>>
    /\ returned' = <<result>>
    /\ IF result.ok /\ RunsSignature(args)
       THEN pc' = "sig_key" /\ result' = Pending /\ ran' = <<"tcb", "signature">>
       ELSE pc' = "end" /\ UNCHANGED <<result, ran>>
    /\ UNCHANGED args
    /\ UNCHANGED <<chainVars, tcbVars, sigVars, codecVars>>

\* verify_attestation_signature(..)? returns; line 445
SignatureReturns ==
    /\ pc = "done"
    /\ ran # <<>>
    /\ ran[Len(ran)] = "signature"
    /\ returned' = Append(returned, result)
    /\ pc' = "end"
    /\ UNCHANGED <<result, args, ran>>
    /\ UNCHANGED <<chainVars, tcbVars, sigVars, codecVars>>

-----------------------------------------------------------------------------
(* specifications *)

\* verify certs <certs-dir>
InitChain == ChainInit /\ TcbIdle /\ CodecIdle /\ SigIdle /\ AttIdle
NextChain == ResolvePaths \/ LoadChain \/ VerifyArk \/ VerifyAsk \/ VerifyVek
SpecChain == InitChain /\ [][NextChain]_vars

\* verify_attestation_tcb(vcek, att_report, proc_model, quiet)
InitTcb == TcbInit /\ ChainIdle /\ CodecIdle /\ SigIdle /\ AttIdle
NextTcb ==
    \/ ParseVek
    \/ CompareBootLoader
    \/ CompareTee
    \/ CompareSnp
    \/ CompareUcode
    \/ CompareHwId
    \/ CheckTurin
    \/ CompareFmc
SpecTcb == InitTcb /\ [][NextTcb]_vars

\* check_cert_bytes(ext, val)
InitCodec == CodecInit /\ ChainIdle /\ TcbIdle /\ SigIdle /\ AttIdle
NextCodec == CheckCertBytes
SpecCodec == InitCodec /\ [][NextCodec]_vars

\* verify_attestation_signature(vcek, att_report, quiet)
InitSig == SigInit /\ ChainIdle /\ TcbIdle /\ CodecIdle /\ AttIdle
NextSig == SigKey \/ SigParse \/ SigHash \/ SigVerify
SpecSig == InitSig /\ [][NextSig]_vars

\* verify attestation <certs-dir> <att-report-path> [-p model] [-t | -s]
InitAtt == AttInit /\ TcbIdle /\ SigIdle /\ CodecIdle
NextAtt ==
    \/ ReadReport
    \/ ProcModel
    \/ FindVek
    \/ LoadVek
    \/ Dispatch
    \/ ParseVek
    \/ CompareBootLoader
    \/ CompareTee
    \/ CompareSnp
    \/ CompareUcode
    \/ CompareHwId
    \/ CheckTurin
    \/ CompareFmc
    \/ TcbReturns
    \/ SigKey
    \/ SigParse
    \/ SigHash
    \/ SigVerify
    \/ SignatureReturns
SpecAtt == InitAtt /\ [][NextAtt]_vars

-----------------------------------------------------------------------------
(* validate_cc: properties, checked under SpecChain *)

CheckOrder == <<"ark_ark", "ark_ask", "ask_vek">>

ChainLoaded == chain # NoChain

\* the error messages of each check
MismatchFmts(i) ==
    IF i = 1 THEN {"The AMD ARK is not self-signed!"}
    ELSE IF i = 2 THEN {"The AMD {} was not signed by the AMD ARK!"}
    ELSE {"The {} was not signed by the AMD {}!"}
StructuralFmts(i) ==
    IF i = 1 THEN {"Failed to verify the ARK cerfificate: {:?}"}
    ELSE IF i = 2 THEN {"Failed to verify ASK certificate: {:?}"}
    ELSE {"Failed to verify VEK certificate: {:?}"}

Failing == {i \in 1..3 : chain[CheckOrder[i]] # "Ok"}
FirstFailing == CHOOSE i \in Failing : \A j \in Failing : i <= j

\* C1: the three signature checks run in the order root-self, root over
\* intermediate, intermediate over leaf; a check is evaluated only after
\* every earlier check succeeded, and the error returned is the one of the
\* first failing check.
C1_FixedOrderFailFast ==
    /\ Len(evaluated) <= 3
    /\ \A i \in 1..Len(evaluated) : evaluated[i] = CheckOrder[i]
    /\ \A i \in 1..(Len(evaluated) - 1) : chain[evaluated[i]] = "Ok"
    /\ (pc = "done" /\ ChainLoaded /\ Failing # {}) =>
          /\ Len(evaluated) = FirstFailing
          /\ result.fmt \in MismatchFmts(FirstFailing)
                            \cup StructuralFmts(FirstFailing)

\* the intermediate check failed and ended the run although the leaf check
\* would have failed too
C1_Witness ==
    /\ pc = "done"
    /\ evaluated = <<"ark_ark", "ark_ask">>
    /\ chain.ark_ask # "Ok"
    /\ chain.ask_vek # "Ok"

\* C2: for every loaded chain validate_cc returns success if and only if
\* all three checks succeed.
C2_SuccessIffAllChecksPass ==
    (pc = "done" /\ ChainLoaded) =>
        (result.ok <=> \A i \in 1..3 : chain[CheckOrder[i]] = "Ok")

\* a correctly constructed chain was accepted after all three checks
C2_Witness ==
    /\ pc = "done"
    /\ result = Ok
    /\ evaluated = CheckOrder
    /\ \A i \in 1..3 : chain[CheckOrder[i]] = "Ok"

\* C3: in each of the three checks a signature that does not validate
\* (ErrorKind::Other) is reported with the mismatch message of that check
\* and every other error with its structural message; a root that is not
\* self-signed yields "The AMD ARK is not self-signed!".
C3_MismatchVsStructural ==
    (pc = "done" /\ ChainLoaded /\ Failing # {}) =>
        /\ (chain[CheckOrder[FirstFailing]] = "Other"
              <=> result.fmt \in MismatchFmts(FirstFailing))
        /\ (chain[CheckOrder[FirstFailing]] \in ErrorKinds \ {"Other"}
              <=> result.fmt \in StructuralFmts(FirstFailing))
        /\ (chain.ark_ark = "Other"
              => result = Err("The AMD ARK is not self-signed!", <<>>))

\* a root that is malformed was reported as a structural error, and a root
\* that is not self-signed is reported as a mismatch
C3_Witness ==
    /\ pc = "done"
    /\ chain.ark_ark = "InvalidData"
    /\ result.fmt = "Failed to verify the ARK cerfificate: {:?}"

IntermediateName ==
    IF paths.vek_type = s_vlek THEN <<"A","S","V","K">> ELSE <<"A","S","K">>

NotSignedByRoot ==
    Err("The AMD {} was not signed by the AMD ARK!", <<IntermediateName>>)

\* C4 as stated: for every chain whose intermediate's signature does not
\* validate against the root's key, validate_cc fails with "intermediate
\* not signed by root".
C4_Original ==
    (pc = "done" /\ ChainLoaded /\ chain.ark_ask = "Other") =>
        result = NotSignedByRoot

\* C4 amended: for every chain whose root self-signature check succeeds and
\* whose intermediate's signature does not validate against the root's key,
\* validate_cc fails with "The AMD ASK (VCEK variant) / ASVK (VLEK variant)
\* was not signed by the AMD ARK!".
C4_IntermediateNotSignedByRoot ==
    (pc = "done" /\ ChainLoaded /\ chain.ark_ark = "Ok"
        /\ chain.ark_ask = "Other") =>
        result = NotSignedByRoot

\* a VLEK chain whose ASVK is not signed by the root was rejected
C4_Witness ==
    /\ pc = "done"
    /\ paths.vek_type = s_vlek
    /\ chain.ark_ark = "Ok"
    /\ chain.ark_ask = "Other"
    /\ result = Err("The AMD {} was not signed by the AMD ARK!",
                    <<<<"A","S","V","K">>>>)

Exists(cert) == (cert \o s_pem) \in dir \/ (cert \o s_der) \in dir
FilesOf(cert) == {cert \o s_pem, cert \o s_der} \cap dir

\* C5: a resolved chain takes leaf and intermediate from one variant: (vlek,
\* asvk) whenever a vlek file exists, otherwise (vcek, ask); the files named
\* exist; a mixed pair is never produced; resolution fails if neither leaf
\* file exists.
C5_OneVariant ==
    (pc # "resolve") =>
        /\ (paths # NoPaths) =>
              /\ IF Exists(s_vlek)
                 THEN /\ paths.vek_type = s_vlek /\ paths.sign_type = s_asvk
                      /\ paths.vek_path \in FilesOf(s_vlek)
                      /\ paths.ask_path \in FilesOf(s_asvk)
                 ELSE /\ paths.vek_type = s_vcek /\ paths.sign_type = s_ask
                      /\ paths.vek_path \in FilesOf(s_vcek)
                      /\ paths.ask_path \in FilesOf(s_ask)
              /\ paths.ark_path \in FilesOf(s_ark)
        /\ (paths = NoPaths) =>
              /\ pc = "done"
              /\ result \in {NotFound(c) : c \in CertNames}
        /\ (~Exists(s_vlek) /\ ~Exists(s_vcek)) => paths = NoPaths

\* both leaf files and both intermediates exist and the VLEK variant was
\* resolved
C5_Witness ==
    /\ pc = "load"
    /\ Exists(s_vlek) /\ Exists(s_vcek) /\ Exists(s_ask) /\ Exists(s_asvk)
    /\ paths.vek_type = s_vlek
    /\ paths.sign_type = s_asvk

-----------------------------------------------------------------------------
(* parse_common_name and verify_attestation_tcb: properties, checked under  *)
(* SpecTcb                                                                  *)

RoleResolved == IsSome(common_name)

\* C6: a common name that contains a leaf token (vcek or vlek) resolves to
\* that leaf type also when it contains the intermediate token (ask, sev).
C6_LeafTokenWins ==
    (RoleResolved /\ IsSome(cn)) =>
        LET x == to_lowercase(Unwrap(cn))
        IN  /\ (contains(x, s_vcek) /\ ~contains(x, s_ark))
                  => common_name = Some("VCEK")
            /\ (contains(x, s_vlek) /\ ~contains(x, s_ark)
                  /\ ~contains(x, s_vcek)) => common_name = Some("VLEK")

FieldOrder == <<"BootLoader", "Tee", "Snp", "Ucode", "HwId", "Fmc">>
FieldIndex(oid) == CHOOSE i \in 1..6 : FieldOrder[i] = oid

FieldMismatch(oid) ==
    IF oid = "BootLoader"
    THEN "Report TCB Boot Loader and Certificate Boot Loader mismatch encountered."
    ELSE IF oid = "Tee"
    THEN "Report TCB TEE and Certificate TEE mismatch encountered."
    ELSE IF oid = "Snp"
    THEN "Report TCB SNP and Certificate SNP mismatch encountered."
    ELSE IF oid = "Ucode"
    THEN "Report TCB Microcode and Certificate Microcode mismatch encountered."
    ELSE IF oid = "HwId"
    THEN "Report TCB ID and Certificate ID mismatch encountered."
    ELSE "Report TCB FMC and Certificate FMC mismatch encountered."

UnsupportedReportVersion ==
    Err("Turin Attestation is not supported in version 2 of the report.", <<>>)

\* the bytes of the report a field's extension is compared with
Reported(oid) ==
    IF oid = "BootLoader" THEN <<att_report.reported_tcb.bootloader>>
    ELSE IF oid = "Tee" THEN <<att_report.reported_tcb.tee>>
    ELSE IF oid = "Snp" THEN <<att_report.reported_tcb.snp>>
    ELSE IF oid = "Ucode" THEN <<att_report.reported_tcb.microcode>>
    ELSE IF oid = "HwId" THEN att_report.chip_id
    ELSE to_le_bytes(Unwrap(att_report.reported_tcb.fmc))

\* the field is one the check compares for this certificate and report
Applicable(oid) ==
    /\ IsSome(extensions[oid])
    /\ oid = "HwId" => common_name = Some("VCEK")
    /\ oid = "Fmc" => /\ proc_model = "Turin"
                      /\ att_report.version >= 3
                      /\ IsSome(att_report.reported_tcb.fmc)

Outcome(oid) == check_cert_bytes(Unwrap(extensions[oid]), Reported(oid))
Disagreeing == {o \in SnpOids : Applicable(o) /\ Outcome(o) = "false"}
Aborting == {o \in SnpOids : Applicable(o) /\ IsPanic(Outcome(o))}
FirstOf(S) == CHOOSE o \in S : \A q \in S : FieldIndex(o) <= FieldIndex(q)

\* C7: fields are compared in the order bootloader, tee, snp, microcode,
\* hardware identity, fmc; a field is compared only after every earlier
\* comparison returned true; a comparison returning false ends the check at
\* once with the error naming that field; and when a compared field
\* disagrees with the report the result is a failure, naming the first
\* such field unless an earlier extension is malformed.
C7_FieldOrderFailFast ==
    /\ \A i, j \in 1..Len(compared) :
          i < j => FieldIndex(compared[i][1]) < FieldIndex(compared[j][1])
    /\ \A i \in 1..(Len(compared) - 1) : compared[i][2] = "true"
    /\ (compared # <<>> /\ compared[Len(compared)][2] = "false") =>
          /\ pc = "done"
          /\ result = Err(FieldMismatch(compared[Len(compared)][1]), <<>>)
    /\ (pc = "done" /\ RoleResolved /\ Disagreeing # {}) =>
          /\ ~result.ok
          /\ (\A a \in Aborting :
                FieldIndex(FirstOf(Disagreeing)) < FieldIndex(a))
             => result = Err(FieldMismatch(FirstOf(Disagreeing)), <<>>)

\* two extensions disagree with the report and the error names the earlier
\* one, the later one never having been compared
C7_Witness ==
    /\ pc = "done"
    /\ RoleResolved
    /\ Cardinality(Disagreeing) = 2
    /\ result = Err(FieldMismatch(FirstOf(Disagreeing)), <<>>)
    /\ \A i \in 1..Len(compared) :
          FieldIndex(compared[i][1]) <= FieldIndex(FirstOf(Disagreeing))

HwIdCompared == \E i \in 1..Len(compared) : compared[i][1] = "HwId"
PastHwId == pc \in {"turin", "cmp_fmc"}
           \/ (pc = "done" /\ (result.ok \/ result = UnsupportedReportVersion
                                \/ result.fmt = FieldMismatch("Fmc")))

\* C8: the hardware-identity extension is compared with report.chip_id if
\* and only if the resolved type is VCEK and the extension is present; for
\* any other type, VLEK included, chip_id is never read and no hardware-ID
\* error is returned.
C8_HwIdOnlyForVcek ==
    /\ HwIdCompared => (common_name = Some("VCEK") /\ IsSome(extensions.HwId))
    /\ PastHwId =>
          (HwIdCompared <=>
              (common_name = Some("VCEK") /\ IsSome(extensions.HwId)))
    /\ common_name # Some("VCEK") => result.fmt # FieldMismatch("HwId")

\* a VCEK-typed certificate whose hardware-identity extension differs from
\* the chip id of the report was rejected
C8_Witness ==
    /\ pc = "done"
    /\ common_name = Some("VCEK")
    /\ compared # <<>>
    /\ compared[Len(compared)] = <<"HwId", "false">>
    /\ result = Err(FieldMismatch("HwId"), <<>>)

FmcCompared == \E i \in 1..Len(compared) : compared[i][1] = "Fmc"

\* C9 as stated: for every leaf certificate and every report with version
\* < 3, the check with processor model Turin fails with
\* UnsupportedReportVersion and never attempts the fmc comparison.
C9_Original ==
    (pc = "done" /\ proc_model = "Turin" /\ att_report.version < 3) =>
        /\ result = UnsupportedReportVersion
        /\ ~FmcCompared

\* C9 amended: for every leaf certificate and every report with version
\* < 3, the check with processor model Turin never succeeds and never
\* attempts the fmc comparison; it fails with UnsupportedReportVersion
\* whenever the certificate parses, its type resolves and every comparison
\* of bootloader, tee, snp, microcode and hardware identity made before the
\* version gate returns true.
C9_TurinNeedsVersion3 ==
    (proc_model = "Turin" /\ att_report.version < 3) =>
        /\ pc # "cmp_fmc"
        /\ ~FmcCompared
        /\ pc = "done" =>
              /\ ~result.ok
              /\ (RoleResolved
                    /\ \A i \in 1..Len(compared) : compared[i][2] = "true")
                 => result = UnsupportedReportVersion

\* a version 2 report was rejected at the version gate although the
\* certificate carries an fmc extension
C9_Witness ==
    /\ pc = "done"
    /\ proc_model = "Turin"
    /\ att_report.version = 2
    /\ IsSome(extensions.Fmc)
    /\ result = UnsupportedReportVersion

-----------------------------------------------------------------------------
(* check_cert_bytes: properties, checked under SpecCodec *)

\* C10: for the INTEGER extension <<0x02, 1, v>>, check_cert_bytes returns
\* true against expected = <<v>> and false against any other single byte;
\* with a length byte other than 1 or 2 it panics.
C10_IntegerRoundTrip ==
    (pc = "done") =>
        /\ (Len(ext) = 3 /\ ext[1] = 2 /\ ext[2] = 1 /\ Len(val) = 1) =>
              ccb = (IF val[1] = ext[3] THEN "true" ELSE "false")
        /\ (Len(ext) >= 2 /\ ext[1] = 2 /\ ext[2] \notin {1, 2}) =>
              IsPanic(ccb)

\* the encoding of 3 was compared with another byte and found different
C10_Witness ==
    /\ pc = "done"
    /\ ext = <<2, 1, 3>>
    /\ val = <<1>>
    /\ ccb = "false"

\* C11: for an OCTET STRING extension (first byte 0x04) check_cert_bytes
\* returns true exactly when the 64 bytes after the two-byte header equal
\* the 64-byte expected value and false when they differ; with a length
\* byte other than 0x40, a content length other than 64 or an expected
\* value not 64 bytes long it panics.
C11_OctetString ==
    (pc = "done" /\ Len(ext) >= 2 /\ ext[1] = 4) =>
        IF ext[2] = 64 /\ Len(ext) = 66 /\ Len(val) = 64
        THEN ccb = (IF \A i \in 1..64 : ext[i + 2] = val[i]
                    THEN "true" ELSE "false")
        ELSE IsPanic(ccb)

\* a well-formed OCTET STRING was compared with a different chip id and
\* found different
C11_Witness ==
    /\ pc = "done"
    /\ ext = <<4, 64>> \o IdA
    /\ val = IdB
    /\ ccb = "false"

\* C12: for every 64-byte raw extension value x, those beginning with 0x02
\* or 0x04 included, check_cert_bytes returns true against expected = x
\* and false when expected or the extension is a single-bit-flipped copy.
C12_LegacySelfEqual ==
    (pc = "done" /\ Len(ext) = 64 /\ Len(val) = 64) =>
        ccb = (IF ext = val THEN "true" ELSE "false")

\* C21: for an INTEGER extension (first byte 0x02) whose length byte is 1
\* or 2, check_cert_bytes returns true exactly when the last byte of the
\* extension value equals the first byte of the expected value, whatever
\* the number of content bytes, the high-order content bytes and the
\* bytes of the expected value after the first.
C21_IntegerLastByte ==
    (pc = "done" /\ Len(ext) >= 2 /\ ext[1] = 2 /\ ext[2] \in {1, 2}
       /\ Len(val) >= 1) =>
        ccb = (IF ext[Len(ext)] = val[1] THEN "true" ELSE "false")

\* the two-byte encoding of 0x01A9 was compared with the reported value
\* 0xA9 and found equal
C21_Witness ==
    /\ pc = "done"
    /\ ext = <<2, 2, 1, 169>>
    /\ val = <<169>>
    /\ ccb = "true"

-----------------------------------------------------------------------------
(* verify_attestation_signature: properties, checked under SpecSig *)

KeyUsable == vek_key.public_key = "ok" /\ vek_key.ec_key = "ok"

\* the signature was made with the VEK key and verify() can evaluate it
SignedByVek ==
    /\ KeyUsable
    /\ signature.parsable
    /\ signature.usable
    /\ signature.signer = vek_key.id

\* the message the signer signed
SignedMessage == signature.digest.sha384

SignatureMismatch == Err("VEK did NOT sign the Attestation Report!", <<>>)

SigStructuralFmts ==
    {"Failed to get the public key from the VEK.",
     "Failed to convert VEK public key into ECkey.",
     "Failed to get ECDSA Signature from attestation report.",
     "<write_bytes error>",
     "Failed to verify attestation report signature with VEK public key."}

\* C13: the digest verified is that of exactly the first 0x2A0 bytes of the
\* serialized report: a report signed by the VEK key verifies if its first
\* 0x2A0 bytes are the signed message, whatever the bytes after them, and
\* fails with "VEK did NOT sign" if any byte among them differs.
C13_SignedPrefix ==
    /\ IsSome(digest) =>
          digest = Some(Sha384(SubSeq(Unwrap(report_bytes), 1, 672)))
    /\ (pc = "done" /\ SignedByVek /\ IsSome(report_bytes)) =>
          result = (IF \A i \in 1..672 :
                          Unwrap(report_bytes)[i] = SignedMessage[i]
                    THEN Ok ELSE SignatureMismatch)

\* the last signed byte of a report signed by the VEK was changed and the
\* signature check failed with the mismatch
C13_Witness ==
    /\ pc = "done"
    /\ SignedByVek
    /\ IsSome(report_bytes)
    /\ Unwrap(report_bytes)[672] # SignedMessage[672]
    /\ \A i \in 1..671 : Unwrap(report_bytes)[i] = SignedMessage[i]
    /\ result = SignatureMismatch

\* C14: an error of key extraction, signature extraction or verify() is
\* reported with its own "Failed to ..." message, "VEK did NOT sign" is
\* returned only when verify() completed with a negative answer, and
\* success only when it completed with a positive one.
C14_StructuralVsMismatch ==
    (pc = "done") =>
        LET evaluated_ok == /\ KeyUsable /\ signature.parsable
                            /\ IsSome(report_bytes) /\ signature.usable
            positive == /\ signature.signer = vek_key.id
                        /\ SignedMessage = SubSeq(Unwrap(report_bytes), 1, 672)
        IN  /\ result.fmt \in SigStructuralFmts <=> ~evaluated_ok
            /\ result = SignatureMismatch <=> (evaluated_ok /\ ~positive)
            /\ result.ok <=> (evaluated_ok /\ positive)
            /\ (KeyUsable /\ signature.parsable /\ IsSome(report_bytes)
                  /\ ~signature.usable) =>
                  result.fmt = "Failed to verify attestation report signature with VEK public key."

\* verify() raised an error on a signature made by the VEK over the
\* presented bytes, and the structural error was returned
C14_Witness ==
    /\ pc = "done"
    /\ KeyUsable /\ signature.parsable /\ IsSome(report_bytes)
    /\ ~signature.usable
    /\ signature.signer = vek_key.id
    /\ SignedMessage = SubSeq(Unwrap(report_bytes), 1, 672)
    /\ result.fmt = "Failed to verify attestation report signature with VEK public key."

-----------------------------------------------------------------------------
(* verify_attestation: properties, checked under SpecAtt *)

ModeBoth == ~args.tcb /\ ~args.signature
TcbLabels ==
    {"tcb_parse", "cmp_bl", "cmp_tee", "cmp_snp", "cmp_ucode", "cmp_hwid",
     "turin", "cmp_fmc"}
SigLabels == {"sig_key", "sig_parse", "sig_hash", "sig_verify"}

\* C15: the sub-checks that run are those the mode selects: only the TCB
\* check with --tcb, only the signature check with --signature, the TCB
\* check and then the signature check with neither flag; the signature
\* check never follows a TCB check that did not return Ok; and the result
\* is that of the last sub-check run, hence success in Both mode only if
\* both returned Ok.
C15_ModeDispatch ==
    /\ args.tcb => ran \in {<<>>, <<"tcb">>}
    /\ args.signature => ran \in {<<>>, <<"signature">>}
    /\ ModeBoth => ran \in {<<>>, <<"tcb">>, <<"tcb", "signature">>}
    /\ pc \in TcbLabels => ran = <<"tcb">>
    /\ pc \in SigLabels => (ran # <<>> /\ ran[Len(ran)] = "signature")
    /\ ran = <<"tcb", "signature">> => (returned # <<>> /\ returned[1].ok)
    /\ (pc = "end" /\ ran = <<>>) => ~result.ok
    /\ (pc = "end" /\ ran # <<>>) =>
          /\ Len(returned) = Len(ran)
          /\ result = returned[Len(returned)]
          /\ \A i \in 1..(Len(returned) - 1) : returned[i].ok
          /\ ModeBoth =>
                /\ returned[1].ok => ran = <<"tcb", "signature">>
                /\ result.ok <=> /\ ran = <<"tcb", "signature">>
                                 /\ returned[1].ok
                                 /\ returned[2].ok

\* Both mode, a report signed by the VEK key, a failed TCB check: the
\* signature check was not called and the TCB error was returned
C15_Witness ==
    /\ pc = "end"
    /\ ModeBoth
    /\ ran = <<"tcb">>
    /\ returned # <<>>
    /\ ~returned[1].ok
    /\ result = returned[1]
    /\ signature.parsable /\ signature.usable
    /\ signature.signer = vek_key.id

\* the extension carries the value in one of the three recognized shapes
Carries(e, v) ==
    \/ e = <<2, 1>> \o v /\ Len(v) = 1
    \/ e = <<4, OctetLen>> \o v /\ Len(v) = OctetLen
    \/ e = v /\ Len(v) = OctetLen

\* every TCB or identity extension of the certificate carries the value
\* the report has for that field
ReportEqualsExtensions ==
    \A o \in SnpOids :
        IsSome(extensions[o]) =>
            /\ o = "Fmc" => IsSome(att_report.reported_tcb.fmc)
            /\ Carries(Unwrap(extensions[o]), Reported(o))

\* the signature of the report was made by the leaf key over the first
\* 0x2A0 bytes of the serialized report
SignatureValid ==
    /\ SignedByVek
    /\ IsSome(report_bytes)
    /\ SignedMessage = SubSeq(Unwrap(report_bytes), 1, 672)

VcekLeaf ==
    /\ IsSome(cn)
    /\ contains(to_lowercase(Unwrap(cn)), s_vcek)
    /\ RoleResolved

-----------------------------------------------------------------------------
(* verify_attestation_tcb: aborts, roles and absent extensions *)

\* the encoding of the extension matches one of the three shapes
\* check_cert_bytes recognizes
Recognized(e) ==
    /\ Len(e) >= 2
    /\ IF e[1] = 2 THEN e[2] \in {1, 2}
       ELSE IF e[1] = 4 THEN e[2] = OctetLen /\ Len(e) = OctetLen + 2
       ELSE Len(e) = OctetLen

Aborted == pc = "done" /\ result.fmt = "<panic>"

\* C17: the TCB check aborts only on a certificate extension whose encoding
\* matches none of the three recognized shapes; in particular an absent fmc
\* value in the report is returned as an error.  Checked under SpecTcb.
C17_AbortOnlyOnMalformedExtension ==
    Aborted =>
        \E o \in SnpOids :
            /\ IsSome(extensions[o])
            /\ ~Recognized(Unwrap(extensions[o]))

\* C18: when the resolved role is not VCEK or VLEK the TCB check does not
\* return success.  Checked under SpecTcb.
C18_NonLeafRoleRejected ==
    (pc = "done" /\ RoleResolved
       /\ common_name \notin {Some("VCEK"), Some("VLEK")}) => ~result.ok

\* C19: for a certificate found as the vcek file of the directory, with
\* the common name SEV-VCEK and a hardware-identity extension, a report
\* whose chip_id differs from that extension does not pass the TCB check.
\* Checked under SpecAtt.
C19_FixtureChipIdEnforced ==
    (/\ returned # <<>>
     /\ ran[1] = "tcb"
     /\ paths.vek_type = s_vcek
     /\ cn = Some(<<"S","E","V","-","V","C","E","K">>)
     /\ IsSome(extensions["HwId"])
     /\ ~Carries(Unwrap(extensions["HwId"]), att_report.chip_id))
    => ~returned[1].ok

\* the unwrap of an absent fmc value is reached
FmcUnwrapFails ==
    /\ proc_model = "Turin"
    /\ att_report.version >= 3
    /\ IsSome(extensions["Fmc"])
    /\ ~IsSome(att_report.reported_tcb.fmc)

\* C20: an extension absent from the certificate is never compared and
\* never the cause of a failure: once the role is resolved the check fails
\* only on the Turin version gate or on a present extension (one that
\* disagrees, is malformed, or is the fmc extension with no fmc in the
\* report), so a certificate with none of the six extensions passes for
\* every report when the role resolves and, for Turin, the version is at
\* least 3.  Checked under SpecTcb.
C20_AbsentExtensionSkipped ==
    /\ \A i \in 1..Len(compared) : IsSome(extensions[compared[i][1]])
    /\ (pc = "done" /\ RoleResolved /\ ~result.ok) =>
          \/ proc_model = "Turin" /\ att_report.version < 3
          \/ Disagreeing # {}
          \/ Aborting # {}
          \/ FmcUnwrapFails
    /\ (/\ pc = "done"
        /\ RoleResolved
        /\ \A o \in SnpOids : extensions[o] = None
        /\ proc_model = "Turin" => att_report.version >= 3)
       => result = Ok /\ compared = <<>>

\* a certificate without any of the six extensions passed for a Turin
\* version 3 report that has no fmc value, nothing having been compared
C20_Witness ==
    /\ pc = "done"
    /\ RoleResolved
    /\ \A o \in SnpOids : extensions[o] = None
    /\ proc_model = "Turin"
    /\ att_report.version >= 3
    /\ att_report.reported_tcb.fmc = None
    /\ compared = <<>>
    /\ result = Ok

====
